---------------------------- MODULE Spec2Model ----------------------------
(***************************************************************************)
(* canfd-fleet-diagnostics: the Diagnostics Collector (ring buffer and     *)
(* vehicle profiles), the UDS client and the Fleet Manager (registry,      *)
(* lock, perform_diagnostics, scan_fleet), modelled from                   *)
(*   src/src/diagnostics_collector.py, src/src/uds_client.py and           *)
(*   src/src/fleet_manager.py.                                             *)
(*                                                                         *)
(* The specifications share the variables:                                 *)
(*   SpecCollector  one caller using a DiagnosticsCollector                *)
(*   SpecUDS        callers using the UDS client of a FleetManager         *)
(*   Spec           threads running FleetManager operations, interleaved   *)
(*                  between the statements that touch shared state         *)
(*   SpecRegistry   Spec with the threads running only add_vehicle,        *)
(*                  remove_vehicle and update_vehicle_status               *)
(*   SpecWorkers    Spec with the registry changed only while no           *)
(*                  perform_diagnostics runs, and no scan_fleet            *)
(*   SpecScan       one thread using a FleetManager (SpecScanFair: and     *)
(*                  never stopping in the middle of a call)                *)
(***************************************************************************)
EXTENDS Integers, Sequences, FiniteSets, TLC

(***************************************************************************)
(* Bounds of the model.                                                    *)
(***************************************************************************)
\* capacities 0..MaxCap are tried for DiagnosticsCollector(max_buffer_size)
MaxCap == 2
\* records created (timestamps drawn) in one behaviour
MaxRecords == 3
\* threads of Spec
NumThreads == 2
\* operations started in one behaviour of Spec, SpecScan or SpecRegistry
MaxOps == 3
\* entries a behaviour may insert into the registry dict
MaxSlots == 3
\* values 0..MaxPool are tried for FleetManager(max_concurrent_diagnostics)
MaxPool == 1
\* the largest limit asked of get_vehicle_diagnostics
MaxLimit == 2
\* the longest payload handed to send_frame, in bytes
MaxPayload == 65
\* successful send_frame calls between two reset_statistics
MaxFrames == 2

\* the defaults of DiagnosticsCollector(max_buffer_size) and of
\* FleetManager(max_concurrent_diagnostics)
DefaultBufferSize == 1000
DefaultMaxConcurrent == 5

VehicleIds == {"VEH001", "VEH002"}
Threads == 1..NumThreads

\* Python's None, as the value of last_diagnostic; timestamps start at 1
None == 0
\* the code lists a caller hands to collect_diagnostics
PlaceholderDTCs == <<"P0101", "P0102">>
NoDTCs == << >>

UDSSessionType == {"DEFAULT", "PROGRAMMING", "EXTENDED", "SAFETY_SYSTEM"}
\* what the ECU answers to a request: the environment's choice
Responses == {"positive", "negative", "timeout"}

VARIABLES
  max_buffer_size,            \* DiagnosticsCollector.max_buffer_size
  diagnostics_buffer,         \* DiagnosticsCollector.diagnostics_buffer
  vehicle_profiles,           \* DiagnosticsCollector.vehicle_profiles
  clock,                      \* datetime.now(): the next timestamp
  created,                    \* history: the records appended, in order
  uds_client,                 \* the UDSClient objects, by client
  call,                       \* history: the last call on a UDS client
  vehicles,                   \* FleetManager.vehicles: the dict's entry table
  lock,                       \* FleetManager.lock: the holder, or 0
  max_concurrent_diagnostics, \* FleetManager.max_concurrent_diagnostics
  thread,                     \* each thread's position and locals
  nops,                       \* history: operations started so far (Spec)
  canfd_handler,              \* FleetManager.canfd_handler: the CANFDHandler
  sent                        \* history: successful send_frame calls since
                              \* the last reset_statistics

vars == <<max_buffer_size, diagnostics_buffer, vehicle_profiles, clock, created,
          uds_client, call, vehicles, lock,
          max_concurrent_diagnostics, thread, nops, canfd_handler, sent>>

collectorVars == <<max_buffer_size, diagnostics_buffer, vehicle_profiles,
                   clock, created>>
udsVars == <<uds_client, call>>
handlerVars == <<canfd_handler, sent>>
fleetVars == <<vehicles, lock, max_concurrent_diagnostics, thread, nops,
               handlerVars>>

(***************************************************************************)
(* DiagnosticsCollector                                                     *)
(***************************************************************************)
\* VehicleDiagnostics(vehicle_id, timestamp, dtc_codes); the three metric
\* maps are constants of the caller and are left out
VehicleDiagnostics(vehicle_id, timestamp, dtc_codes) ==
  [vehicle_id |-> vehicle_id, timestamp |-> timestamp, dtc_codes |-> dtc_codes]

\* the profile add_vehicle stores; added_at is the time of the call
NewProfile(now) ==
  [added_at |-> now, last_diagnostic |-> None, diagnostics_count |-> 0]

\* d[k] = v on a dict held as a function
DictSet(d, k, v) ==
  [x \in (DOMAIN d) \cup {k} |-> IF x = k THEN v ELSE d[x]]

\* len(self.diagnostics_buffer) >= self.max_buffer_size
BufferFull(buf, cap) ==
  Len(buf) >= cap

\* self.diagnostics_buffer.pop(0) on a nonempty list
PopNewest(buf) ==
  SubSeq(buf, 1, Len(buf) - 1)
PopOldest(buf) ==
  Tail(buf)

\* self.diagnostics_buffer.append(diagnostic)
BufferAppendOverwrites(buf, diagnostic) ==
  IF buf # << >> /\ buf[Len(buf)].vehicle_id = diagnostic.vehicle_id
  THEN [buf EXCEPT ![Len(buf)] = diagnostic]
  ELSE Append(buf, diagnostic)
BufferAppend(buf, diagnostic) ==
  Append(buf, diagnostic)

\* vehicle_id in self.vehicle_profiles
Registered(profiles, v) ==
  v \in DOMAIN profiles

\* the profile after lines 109-110: last_diagnostic and diagnostics_count
ProfileAfterKeepsCount(profile, diagnostic) ==
  [profile EXCEPT !.last_diagnostic = diagnostic.timestamp]
ProfileAfter(profile, diagnostic) ==
  [profile EXCEPT !.last_diagnostic = diagnostic.timestamp,
                  !.diagnostics_count = @ + 1]

\* Optional[VehicleDiagnostics]: the None collect_diagnostics returns
NoDiagnostic ==
  VehicleDiagnostics("", None, << >>)

\* DiagnosticsCollector.add_vehicle: what the call returns
CollectorAddVehicleRet(v) ==
  TRUE

\* DiagnosticsCollector.add_vehicle, one call
CollectorAddVehicle(v) ==
  /\ vehicle_profiles' = DictSet(vehicle_profiles, v, NewProfile(clock))
  /\ UNCHANGED <<max_buffer_size, diagnostics_buffer, clock, created>>

\* DiagnosticsCollector.collect_diagnostics, one call by a single caller
CollectDiagnosticsUnchecked(v, dtc_codes) ==
  /\ clock <= MaxRecords
  /\ LET diagnostic == VehicleDiagnostics(v, clock, dtc_codes)
         full == BufferFull(diagnostics_buffer, max_buffer_size)
     IN IF full /\ diagnostics_buffer = << >>
        THEN /\ clock' = clock + 1
             /\ UNCHANGED <<max_buffer_size, diagnostics_buffer,
                            vehicle_profiles, created>>
        ELSE /\ clock' = clock + 1
             /\ diagnostics_buffer' =
                  BufferAppend(IF full THEN PopOldest(diagnostics_buffer)
                                       ELSE diagnostics_buffer, diagnostic)
             /\ vehicle_profiles' =
                  IF v \in DOMAIN vehicle_profiles
                  THEN [vehicle_profiles EXCEPT ![v] =
                          ProfileAfter(@, diagnostic)]
                  ELSE vehicle_profiles
             /\ created' = Append(created, diagnostic)
             /\ UNCHANGED max_buffer_size
CollectDiagnostics(v, dtc_codes) ==
  /\ clock <= MaxRecords
  /\ IF ~Registered(vehicle_profiles, v)
     THEN \* not registered: return None
          UNCHANGED collectorVars
     ELSE LET diagnostic == VehicleDiagnostics(v, clock, dtc_codes)
              full == BufferFull(diagnostics_buffer, max_buffer_size)
          IN IF full /\ diagnostics_buffer = << >>
             THEN \* pop(0) on an empty list raises IndexError: return None
                  /\ clock' = clock + 1
                  /\ UNCHANGED <<max_buffer_size, diagnostics_buffer,
                                 vehicle_profiles, created>>
             ELSE /\ clock' = clock + 1
                  /\ diagnostics_buffer' =
                       BufferAppend(IF full THEN PopOldest(diagnostics_buffer)
                                            ELSE diagnostics_buffer,
                                    diagnostic)
                  /\ vehicle_profiles' =
                       [vehicle_profiles EXCEPT ![v] =
                          ProfileAfter(@, diagnostic)]
                  /\ created' = Append(created, diagnostic)
                  /\ UNCHANGED max_buffer_size

\* DiagnosticsCollector.collect_diagnostics: what that call returns, the
\* record created or None
CollectDiagnosticsRet(v, dtc_codes) ==
  IF ~Registered(vehicle_profiles, v)
  THEN NoDiagnostic
  ELSE IF BufferFull(diagnostics_buffer, max_buffer_size)
          /\ diagnostics_buffer = << >>
       THEN NoDiagnostic
       ELSE VehicleDiagnostics(v, clock, dtc_codes)

\* s[start:] of a Python list, for any integer start
SliceFrom(s, start) ==
  LET n == Len(s)
      first == IF start < 0
               THEN (IF start + n < 0 THEN 0 ELSE start + n)
               ELSE (IF start > n THEN n ELSE start)
  IN SubSeq(s, first + 1, n)

\* [d for d in self.diagnostics_buffer if d.vehicle_id == vehicle_id]
RecordsFor(buf, vehicle_id) ==
  SelectSeq(buf, LAMBDA d : d.vehicle_id = vehicle_id)

\* DiagnosticsCollector.get_vehicle_diagnostics: the list returned
GetVehicleDiagnostics(vehicle_id, limit) ==
  SliceFrom(RecordsFor(diagnostics_buffer, vehicle_id), 0 - limit)

\* DiagnosticsCollector.get_fleet_summary: the dict returned; buffer_usage
\* "len/max" is held as the pair of its two numbers
GetFleetSummary ==
  [total_vehicles |-> Cardinality(DOMAIN vehicle_profiles),
   vehicles_with_dtc |->
     Len(SelectSeq(diagnostics_buffer, LAMBDA d : Len(d.dtc_codes) > 0)),
   total_diagnostics_collected |-> Len(diagnostics_buffer),
   buffer_usage |-> <<Len(diagnostics_buffer), max_buffer_size>>]

(***************************************************************************)
(* Initial values shared by the specifications                             *)
(***************************************************************************)
\* DiagnosticsCollector.__init__
CollectorInit ==
  /\ diagnostics_buffer = << >>
  /\ vehicle_profiles = << >>
  /\ clock = 1
  /\ created = << >>

(***************************************************************************)
(* UDSClient                                                                *)
(***************************************************************************)
\* the client perform_diagnostics uses for a vehicle: self.uds_client, the
\* one client FleetManager.__init__ makes
FleetClient == "fleet"
ClientOf(v) ==
  FleetClient
Clients == {FleetClient} \cup {ClientOf(v) : v \in VehicleIds}

\* UDSClient.__init__
UDSClientInit ==
  [current_session |-> "DEFAULT", is_connected |-> FALSE,
   sequence_counter |-> 0]

\* UDSClient.connect: the client after the call (it returns True)
Connect(u) ==
  [u EXCEPT !.is_connected = TRUE]

\* UDSClient.disconnect: the client after the call (it returns True)
Disconnect(u) ==
  [u EXCEPT !.is_connected = FALSE]

\* UDSClient.session_control: the client after the call; the request bytes
\* are built and dropped, no response is read
SessionControlUnguarded(u, session_type) ==
  [u EXCEPT !.current_session = session_type]
SessionControl(u, session_type) ==
  IF ~u.is_connected
  THEN u
  ELSE [u EXCEPT !.current_session = session_type]

\* UDSClient.session_control: what the call returns
SessionControlRet(u, session_type) ==
  u.is_connected

\* UDSClient.read_dtc: the (code, description) pairs returned
ReadDTC(u) ==
  IF ~u.is_connected
  THEN << >>
  ELSE << <<"P0101", "Mass Air Flow (MAF) Sensor Range/Performance">>,
          <<"P0102", "Mass Air Flow (MAF) Sensor Low Input">> >>

\* [code for code, _ in pairs]
CodesReversed(pairs) ==
  [i \in 1..Len(pairs) |-> pairs[Len(pairs) + 1 - i][1]]
Codes(pairs) ==
  [i \in 1..Len(pairs) |-> pairs[i][1]]

\* the data identifiers asked for; 0xF190 is the VIN's
VinDataId == 61840
DataIds == {VinDataId, VinDataId + 1}

\* Optional[str]: None, or a string held as its character codes
NoString ==
  [ok |-> FALSE, value |-> << >>]
SomeString(chars) ==
  [ok |-> TRUE, value |-> chars]

\* bytes.decode('ascii', errors='ignore'): bytes above 127 are dropped
RECURSIVE DecodeAscii(_)
DecodeAscii(bytes) ==
  IF bytes = << >> THEN << >>
  ELSE IF Head(bytes) <= 127
       THEN <<Head(bytes)>> \o DecodeAscii(Tail(bytes))
       ELSE DecodeAscii(Tail(bytes))

\* UDSClient.read_data_by_identifier: the dict returned, data id -> bytes;
\* every value is the placeholder b"\x00"
ReadDataByIdentifier(u, data_ids) ==
  IF ~u.is_connected
  THEN << >>
  ELSE [did \in data_ids |-> <<0>>]

\* UDSClient.clear_dtc: what the call returns
ClearDTC(u) ==
  u.is_connected

\* UDSClient.tester_present: the client after the call; the request bytes
\* are built and dropped and no attribute is assigned
TesterPresentResetsSession(u) ==
  [u EXCEPT !.current_session = "DEFAULT"]
TesterPresent(u) ==
  u

\* UDSClient.tester_present: what the call returns; it has no connection
\* test
TesterPresentRet(u) ==
  TRUE

\* UDSClient.get_vehicle_identification: the string returned, or None
GetVehicleIdentification(u, data_id) ==
  LET result == ReadDataByIdentifier(u, {data_id})
  IN IF data_id \in DOMAIN result
     THEN SomeString(DecodeAscii(result[data_id]))
     ELSE NoString

\* the session timeout window passes with no call on the client: UDSClient
\* keeps no timer, no timestamp and no thread, so the client is as before
SessionTimeout(u) ==
  u

NoCall ==
  [op |-> "none", vehicle_id |-> "", session_type |-> "DEFAULT",
   response |-> "positive", ret |-> FALSE, pre |-> UDSClientInit]

UDSInit ==
  /\ uds_client = [c \in Clients |-> UDSClientInit]
  /\ call = NoCall

(***************************************************************************)
(* CANFDHandler                                                             *)
(***************************************************************************)
\* the payload limit of send_frame
MaxFrameData == 64

\* the payloads tried: n bytes 1, 2, ..., n (mod 256)
Bytes(n) ==
  [i \in 1..n |-> i % 256]
Payloads ==
  {Bytes(n) : n \in {0, 4, MaxFrameData} \cup (MaxFrameData + 1)..MaxPayload}
CanIds == {291}

\* CANFDHandler.__init__
CANFDHandlerInit ==
  [is_connected |-> FALSE, frame_buffer |-> << >>,
   statistics |-> [frames_received |-> 0, frames_sent |-> 0,
                   errors |-> 0, bytes_received |-> 0]]

\* CANFDHandler.connect: the handler after the call (it returns True)
HandlerConnect(h) ==
  [h EXCEPT !.is_connected = TRUE]

\* CANFDHandler.disconnect: the handler after the call, and what the call
\* returns
HandlerDisconnectToggles(h) ==
  [h EXCEPT !.is_connected = ~@]
HandlerDisconnect(h) ==
  [h EXCEPT !.is_connected = FALSE]
HandlerDisconnectRet(h) ==
  h.is_connected

\* len(data) > 64
FrameNeverTooLarge(data) ==
  FALSE
FrameTooLarge(data) ==
  Len(data) > MaxFrameData

\* the CANFrame send_frame builds, lines 101-108
CANFrameClassic(can_id, data, is_extended, now) ==
  [can_id |-> can_id, dlc |-> IF Len(data) > 8 THEN 8 ELSE Len(data),
   data |-> data, timestamp |-> now, is_extended |-> is_extended,
   is_fd |-> FALSE, flags |-> 0]
CANFrame(can_id, data, is_extended, now) ==
  [can_id |-> can_id, dlc |-> Len(data), data |-> data, timestamp |-> now,
   is_extended |-> is_extended, is_fd |-> TRUE, flags |-> 0]

\* CANFDHandler.send_frame: what the call returns
SendFrameRet(h, data) ==
  IF ~h.is_connected THEN FALSE
  ELSE IF FrameTooLarge(data) THEN FALSE
  ELSE TRUE

\* CANFDHandler.send_frame: the frames the call builds
SendFrameFrames(h, can_id, data, is_extended, now) ==
  IF SendFrameRet(h, data)
  THEN <<CANFrame(can_id, data, is_extended, now)>>
  ELSE << >>

\* CANFDHandler.send_frame: the handler after the call
SendFrame(h, data) ==
  IF SendFrameRet(h, data)
  THEN [h EXCEPT !.statistics.frames_sent = @ + 1]
  ELSE h

\* CANFDHandler.receive_frames: the list returned; no frame is ever read
ReceiveFramesRet(h) ==
  << >>

\* CANFDHandler.receive_frames: the handler after the call
ReceiveFrames(h) ==
  IF ~h.is_connected
  THEN h
  ELSE [h EXCEPT !.statistics.frames_received = @ + Len(ReceiveFramesRet(h))]

\* CANFDHandler.get_statistics: a copy of the counters
GetStatistics(h) ==
  h.statistics

\* CANFDHandler.reset_statistics: the handler after the call
ResetStatisticsKeepsSent(h) ==
  [h EXCEPT !.statistics = [k \in DOMAIN @ |->
                              IF k = "frames_sent" THEN @[k] ELSE 0]]
ResetStatistics(h) ==
  [h EXCEPT !.statistics = [k \in DOMAIN @ |-> 0]]

(***************************************************************************)
(* FleetManager: the registry                                               *)
(*                                                                         *)
(* self.vehicles is a dict that scan_fleet iterates while other threads    *)
(* may change it, so it is held as CPython holds it: the table of entries  *)
(* in insertion order, where a deleted entry stays as an empty slot and a  *)
(* new key is appended.  (The table is compacted only once more than five  *)
(* entries were inserted; MaxSlots keeps the model short of that.)         *)
(***************************************************************************)
\* FleetVehicle as add_vehicle makes it: online defaults to False
FleetVehicleOnline(vehicle_id) ==
  [vehicle_id |-> vehicle_id, online |-> TRUE]
FleetVehicle(vehicle_id) ==
  [vehicle_id |-> vehicle_id, online |-> FALSE]

\* the slot a deleted entry leaves
Deleted ==
  [vehicle_id |-> "", online |-> FALSE]

LiveSlots(d) ==
  {i \in 1..Len(d) : d[i].vehicle_id # ""}

\* len(d)
DictLen(d) ==
  Cardinality(LiveSlots(d))

\* k in d
Contains(d, k) ==
  \E i \in LiveSlots(d) : d[i].vehicle_id = k

SlotOf(d, k) ==
  CHOOSE i \in LiveSlots(d) : d[i].vehicle_id = k

\* d[k] = value
DictPut(d, k, value) ==
  IF Contains(d, k)
  THEN [d EXCEPT ![SlotOf(d, k)] = value]
  ELSE Append(d, value)

\* del d[k], for a key of d
DictClear(d, k) ==
  [i \in DOMAIN d |-> Deleted]
DictDel(d, k) ==
  [d EXCEPT ![SlotOf(d, k)] = Deleted]

\* the keys of d in iteration order
RECURSIVE KeyList(_)
KeyList(d) ==
  IF d = << >> THEN << >>
  ELSE IF d[1].vehicle_id = "" THEN KeyList(Tail(d))
  ELSE <<d[1].vehicle_id>> \o KeyList(Tail(d))

\* iter(d): the dict iterator's fields di_used, di_pos and len
DictIter(d) ==
  [used |-> DictLen(d), pos |-> 0, len |-> DictLen(d)]

NoIter ==
  [used |-> 0, pos |-> 0, len |-> 0]

\* the first live slot after pos, or 0
NextSlot(d, pos) ==
  IF \E i \in LiveSlots(d) : i > pos
  THEN CHOOSE i \in LiveSlots(d) :
         i > pos /\ \A j \in LiveSlots(d) : j > pos => i <= j
  ELSE 0

\* next(it): "raise" (RuntimeError: the dict changed size, or its keys
\* changed, during iteration), "stop" (StopIteration) or "yield"
IterOutcome(d, it) ==
  IF it.used # DictLen(d) THEN "raise"
  ELSE IF NextSlot(d, it.pos) = 0 THEN "stop"
  ELSE IF it.len = 0 THEN "raise"
  ELSE "yield"

(***************************************************************************)
(* FleetManager: threads                                                    *)
(***************************************************************************)
\* what perform_diagnostics returns: None, or the result dict
NoResult ==
  [ok |-> FALSE, vehicle_id |-> "", dtc_count |-> 0]
Result(vehicle_id, dtc_codes) ==
  [ok |-> TRUE, vehicle_id |-> vehicle_id, dtc_count |-> Len(dtc_codes)]

\* the results dict scan_fleet starts from
NewResults(total) ==
  [total_vehicles |-> total, vehicles_scanned |-> 0,
   vehicles_with_issues |-> 0, total_dtcs |-> 0]

\* scan_fleet's loop body after perform_diagnostics returned result
AccumulateAnyDTCCount(results, result) ==
  IF ~result.ok THEN results
  ELSE [results EXCEPT !.vehicles_scanned = @ + 1,
                       !.vehicles_with_issues = @ + 1,
                       !.total_dtcs = @ + result.dtc_count]
Accumulate(results, result) ==
  IF ~result.ok THEN results
  ELSE IF result.dtc_count > 0
  THEN [results EXCEPT !.vehicles_scanned = @ + 1,
                       !.vehicles_with_issues = @ + 1,
                       !.total_dtcs = @ + result.dtc_count]
  ELSE [results EXCEPT !.vehicles_scanned = @ + 1]

\* a thread that runs no operation.  At pc = "done" an operation has
\* returned: op, vehicle_id, ret, result and results hold the call and what
\* it returned, and visited (history) the perform_diagnostics calls a scan
\* made.  At pc = "crashed" an exception has left the operation.  before
\* (history) is the number of records created when perform_diagnostics
\* was called.
Idle ==
  [pc |-> "idle", op |-> "none", vehicle_id |-> "", online |-> FALSE,
   dtc_codes |-> << >>, connected |-> FALSE,
   diagnostic |-> VehicleDiagnostics("", 0, << >>), count |-> 0,
   it |-> NoIter, results |-> NewResults(0), result |-> NoResult,
   ret |-> FALSE, visited |-> << >>, before |-> 0]

\* FleetManager.__init__
FleetInit ==
  /\ vehicles = << >>
  /\ lock = 0
  /\ thread = [t \in Threads |-> Idle]
  /\ nops = 0
  /\ sent = 0

(***************************************************************************)
(* SpecCollector                                                            *)
(***************************************************************************)
InitCollector ==
  /\ max_buffer_size \in 0..MaxCap
  /\ CollectorInit
  /\ UDSInit
  /\ FleetInit
  /\ canfd_handler = CANFDHandlerInit
  /\ max_concurrent_diagnostics = DefaultMaxConcurrent

\* history: a call on the collector, its argument, the value returned and
\* the buffer and the profiles before the call
CollectorCalled(op, v, arg, ret) ==
  [op |-> op, vehicle_id |-> v, arg |-> arg, ret |-> ret,
   pre |-> [diagnostics_buffer |-> diagnostics_buffer,
            vehicle_profiles |-> vehicle_profiles]]

DoCollectorAddVehicle ==
  \E v \in VehicleIds :
    /\ CollectorAddVehicle(v)
    /\ call' = CollectorCalled("add_vehicle", v, << >>,
                               CollectorAddVehicleRet(v))
    /\ UNCHANGED <<uds_client, fleetVars>>

DoCollectDiagnostics ==
  \E v \in VehicleIds, dtc_codes \in {NoDTCs, PlaceholderDTCs} :
    /\ CollectDiagnostics(v, dtc_codes)
    /\ call' = CollectorCalled("collect_diagnostics", v, dtc_codes,
                               CollectDiagnosticsRet(v, dtc_codes))
    /\ UNCHANGED <<uds_client, fleetVars>>

DoGetVehicleDiagnostics ==
  \E v \in VehicleIds, limit \in 0..MaxLimit :
    /\ call' = CollectorCalled("get_vehicle_diagnostics", v, limit,
                               GetVehicleDiagnostics(v, limit))
    /\ UNCHANGED <<collectorVars, uds_client, fleetVars>>

DoGetFleetSummary ==
  /\ call' = CollectorCalled("get_fleet_summary", "", << >>, GetFleetSummary)
  /\ UNCHANGED <<collectorVars, uds_client, fleetVars>>

NextCollector ==
  \/ DoCollectorAddVehicle
  \/ DoCollectDiagnostics
  \/ DoGetVehicleDiagnostics
  \/ DoGetFleetSummary

SpecCollector == InitCollector /\ [][NextCollector]_vars

\* the last n elements of a sequence
Suffix(s, n) ==
  SubSeq(s, Len(s) - n + 1, Len(s))

Min(a, b) ==
  IF a <= b THEN a ELSE b

\* C1: with capacity N >= 1, after k successful collect_diagnostics calls by
\* one caller the buffer holds exactly the min(k, N) most recently created
\* records, in creation order, whichever vehicles own them.
C1_RingBufferFIFO ==
  max_buffer_size >= 1 =>
    diagnostics_buffer =
      Suffix(created, Min(Len(created), max_buffer_size))

\* C1: N + 1 records were inserted into a capacity-2 buffer, the evicted one
\* owned by another vehicle than the next one.
C1_Witness ==
  /\ max_buffer_size = 2
  /\ Len(created) = max_buffer_size + 1
  /\ Len(diagnostics_buffer) = max_buffer_size
  /\ created[1].vehicle_id # created[2].vehicle_id
  /\ \A i \in 1..Len(diagnostics_buffer) :
       diagnostics_buffer[i] # created[1]

\* C15: add_vehicle for an id the collector already holds fails and leaves
\* the existing profile as it was.
C15_DuplicateRegistrationFails ==
  (call.op = "add_vehicle"
     /\ call.vehicle_id \in DOMAIN call.pre.vehicle_profiles) =>
    /\ call.ret = FALSE
    /\ vehicle_profiles[call.vehicle_id] =
         call.pre.vehicle_profiles[call.vehicle_id]

\* C16: collect_diagnostics for an id that is not registered returns None
\* and leaves the ring buffer and every profile as they were.
C16_UnknownVehicleRejected ==
  (call.op = "collect_diagnostics"
     /\ call.vehicle_id \notin DOMAIN call.pre.vehicle_profiles) =>
    /\ call.ret = NoDiagnostic
    /\ diagnostics_buffer = call.pre.diagnostics_buffer
    /\ vehicle_profiles = call.pre.vehicle_profiles

\* C16: the call was made for an unregistered id while another vehicle was
\* registered and had a record in the buffer.
C16_Witness ==
  /\ call.op = "collect_diagnostics"
  /\ call.vehicle_id \notin DOMAIN call.pre.vehicle_profiles
  /\ call.arg = PlaceholderDTCs
  /\ call.pre.vehicle_profiles # << >>
  /\ call.pre.diagnostics_buffer # << >>

\* C17: a collect_diagnostics that returned a record for v has raised v's
\* diagnostics_count by exactly one, set v's last_diagnostic to the
\* record's timestamp, and left v's other fields and every other vehicle's
\* profile as they were.
C17_SummaryUpdated ==
  (call.op = "collect_diagnostics" /\ call.ret # NoDiagnostic) =>
    LET v == call.vehicle_id
        before == call.pre.vehicle_profiles
    IN /\ DOMAIN vehicle_profiles = DOMAIN before
       /\ vehicle_profiles[v].diagnostics_count =
            before[v].diagnostics_count + 1
       /\ vehicle_profiles[v].last_diagnostic = call.ret.timestamp
       /\ vehicle_profiles[v].added_at = before[v].added_at
       /\ call.ret = diagnostics_buffer[Len(diagnostics_buffer)]
       /\ \A w \in DOMAIN before : w # v =>
            vehicle_profiles[w] = before[w]

\* C17: a second record was collected for a vehicle while another vehicle
\* with a record of its own was registered.
C17_Witness ==
  /\ call.op = "collect_diagnostics"
  /\ call.ret # NoDiagnostic
  /\ call.pre.vehicle_profiles[call.vehicle_id].diagnostics_count = 1
  /\ vehicle_profiles[call.vehicle_id].diagnostics_count = 2
  /\ \E w \in DOMAIN vehicle_profiles :
       w # call.vehicle_id /\ vehicle_profiles[w].diagnostics_count = 1

\* C18: get_vehicle_diagnostics(v, limit) with limit >= 0 returns at most
\* limit records: the last min(limit, n) of v's n records in the buffer,
\* oldest first.
C18_HistoryWindow ==
  call.op = "get_vehicle_diagnostics" =>
    LET mine == RecordsFor(diagnostics_buffer, call.vehicle_id)
    IN /\ Len(call.ret) <= call.arg
       /\ call.ret = Suffix(mine, Min(call.arg, Len(mine)))

\* C31: every registered vehicle's diagnostics_count is at least the
\* number of its records in the buffer, and its last_diagnostic is None
\* exactly when its diagnostics_count is 0.
C31_CountCoversBuffer ==
  \A v \in DOMAIN vehicle_profiles :
    /\ vehicle_profiles[v].diagnostics_count
         >= Len(RecordsFor(diagnostics_buffer, v))
    /\ vehicle_profiles[v].last_diagnostic = None
         <=> vehicle_profiles[v].diagnostics_count = 0

\* the vehicles that own a record with a nonempty DTC list in the buffer
VehiclesWithDTC ==
  {diagnostics_buffer[i].vehicle_id :
     i \in {j \in 1..Len(diagnostics_buffer) :
              Len(diagnostics_buffer[j].dtc_codes) > 0}}

\* C19: get_fleet_summary reports the number of registered vehicles, the
\* buffer length, and as vehicles_with_dtc the number of distinct vehicles
\* owning a buffered record with a nonempty DTC list.
C19_FleetSummary ==
  call.op = "get_fleet_summary" =>
    /\ call.ret.total_vehicles = Cardinality(DOMAIN vehicle_profiles)
    /\ call.ret.total_diagnostics_collected = Len(diagnostics_buffer)
    /\ call.ret.vehicles_with_dtc = Cardinality(VehiclesWithDTC)

(***************************************************************************)
(* SpecUDS: calls on the UDS client made for a vehicle's diagnostics.      *)
(* The ECU's answer to a request is the environment's choice; call keeps   *)
(* the last call, its arguments, that answer, the client before the call   *)
(* and the value returned.                                                 *)
(***************************************************************************)
InitUDS ==
  /\ max_buffer_size = DefaultBufferSize
  /\ CollectorInit
  /\ UDSInit
  /\ FleetInit
  /\ canfd_handler = CANFDHandlerInit
  /\ max_concurrent_diagnostics = DefaultMaxConcurrent

Called(op, v, session_type, response, ret) ==
  [op |-> op, vehicle_id |-> v, session_type |-> session_type,
   response |-> response, ret |-> ret, pre |-> uds_client[ClientOf(v)]]

DoConnect ==
  \E v \in VehicleIds :
    /\ uds_client' = [uds_client EXCEPT ![ClientOf(v)] = Connect(@)]
    /\ call' = Called("connect", v, "DEFAULT", "positive", TRUE)
    /\ UNCHANGED <<collectorVars, fleetVars>>

DoDisconnect ==
  \E v \in VehicleIds :
    /\ uds_client' = [uds_client EXCEPT ![ClientOf(v)] = Disconnect(@)]
    /\ call' = Called("disconnect", v, "DEFAULT", "positive", TRUE)
    /\ UNCHANGED <<collectorVars, fleetVars>>

DoSessionControl ==
  \E v \in VehicleIds, session_type \in UDSSessionType,
     response \in Responses :
    /\ uds_client' = [uds_client EXCEPT ![ClientOf(v)] =
                        SessionControl(@, session_type)]
    /\ call' = Called("session_control", v, session_type, response,
                      SessionControlRet(uds_client[ClientOf(v)], session_type))
    /\ UNCHANGED <<collectorVars, fleetVars>>

DoReadDTC ==
  \E v \in VehicleIds, response \in Responses :
    /\ call' = Called("read_dtc", v, "DEFAULT", response,
                      ReadDTC(uds_client[ClientOf(v)]))
    /\ UNCHANGED <<uds_client, collectorVars, fleetVars>>

DoReadDataByIdentifier ==
  \E v \in VehicleIds, data_ids \in SUBSET DataIds :
    /\ call' = Called("read_data_by_identifier", v, "DEFAULT", "positive",
                      ReadDataByIdentifier(uds_client[ClientOf(v)], data_ids))
    /\ UNCHANGED <<uds_client, collectorVars, fleetVars>>

DoClearDTC ==
  \E v \in VehicleIds :
    /\ call' = Called("clear_dtc", v, "DEFAULT", "positive",
                      ClearDTC(uds_client[ClientOf(v)]))
    /\ UNCHANGED <<uds_client, collectorVars, fleetVars>>

DoTesterPresent ==
  \E v \in VehicleIds :
    /\ uds_client' = [uds_client EXCEPT ![ClientOf(v)] = TesterPresent(@)]
    /\ call' = Called("tester_present", v, "DEFAULT", "positive",
                      TesterPresentRet(uds_client[ClientOf(v)]))
    /\ UNCHANGED <<collectorVars, fleetVars>>

DoGetVehicleIdentification ==
  \E v \in VehicleIds, data_id \in DataIds :
    /\ call' = Called("get_vehicle_identification", v, "DEFAULT", "positive",
                      GetVehicleIdentification(uds_client[ClientOf(v)],
                                               data_id))
    /\ UNCHANGED <<uds_client, collectorVars, fleetVars>>

\* no call is made on the client for longer than the session timeout
DoSessionTimeout ==
  \E v \in VehicleIds :
    /\ uds_client' = [uds_client EXCEPT ![ClientOf(v)] = SessionTimeout(@)]
    /\ call' = Called("session_timeout", v, "DEFAULT", "positive", TRUE)
    /\ UNCHANGED <<collectorVars, fleetVars>>

NextUDS ==
  \/ DoConnect
  \/ DoDisconnect
  \/ DoSessionControl
  \/ DoReadDTC
  \/ DoReadDataByIdentifier
  \/ DoClearDTC
  \/ DoTesterPresent
  \/ DoGetVehicleIdentification
  \/ DoSessionTimeout

SpecUDS == InitUDS /\ [][NextUDS]_vars

\* the client the last call was made on
Callee ==
  uds_client[ClientOf(call.vehicle_id)]

\* what the diagnostics of vehicle w see of their UDS client
SeenBy(w) ==
  [is_connected |-> uds_client[ClientOf(w)].is_connected,
   current_session |-> uds_client[ClientOf(w)].current_session]

\* C8: a connect, disconnect or session_control performed for one vehicle
\* never changes the connection or session state another vehicle's
\* diagnostics see.
C8_NoSharedSession ==
  [][\A v, w \in VehicleIds :
       (v # w /\ call'.vehicle_id = v
          /\ call'.op \in {"connect", "disconnect", "session_control"})
       => SeenBy(w)' = SeenBy(w)]_vars

\* C9: the client starts Disconnected, and right after every connect() it
\* is connected and in the DEFAULT session.
C9_ConnectEntersDefault ==
  /\ call.op = "none" =>
       \A c \in Clients : ~uds_client[c].is_connected
  /\ call.op = "connect" =>
       /\ Callee.is_connected
       /\ Callee.current_session = "DEFAULT"

\* C10: session_control(target) on a connected client sets current_session
\* to target and succeeds on a positive response, and fails leaving
\* current_session unchanged on a negative response or a timeout.
C10_SessionOnlyOnPositive ==
  (call.op = "session_control" /\ call.pre.is_connected) =>
    IF call.response = "positive"
    THEN call.ret = TRUE /\ Callee.current_session = call.session_type
    ELSE call.ret = FALSE
         /\ Callee.current_session = call.pre.current_session

\* C11: session_control on a disconnected client returns False and leaves
\* the client, its last-known current_session included, as it was, for
\* every target session and every prior session.
C11_SessionControlDisconnected ==
  (call.op = "session_control" /\ ~call.pre.is_connected) =>
    /\ call.ret = FALSE
    /\ Callee.current_session = call.pre.current_session
    /\ Callee = call.pre

\* C11: a disconnected client whose last-known session is not DEFAULT was
\* asked for a different session.
C11_Witness ==
  /\ call.op = "session_control"
  /\ ~call.pre.is_connected
  /\ call.pre.current_session = "EXTENDED"
  /\ call.session_type = "PROGRAMMING"

\* the request operations other than session_control
OtherRequests ==
  {"read_dtc", "clear_dtc", "read_data_by_identifier", "tester_present",
   "get_vehicle_identification"}

\* C12: a step that changes the current_session of a connected client is a
\* session_control call on that client; read_dtc, clear_dtc,
\* read_data_by_identifier, tester_present and get_vehicle_identification
\* leave every client's current_session as it was.
C12_SessionChangesOnlyBySessionControl ==
  [][/\ \A c \in Clients :
          (uds_client[c].is_connected
             /\ uds_client'[c].current_session # uds_client[c].current_session)
          => (call'.op = "session_control"
                /\ ClientOf(call'.vehicle_id) = c)
     /\ call'.op \in OtherRequests =>
          \A c \in Clients :
            uds_client'[c].current_session = uds_client[c].current_session
    ]_vars

\* C12: one of the other requests ran on a connected client in a
\* non-DEFAULT session.
C12_Witness ==
  /\ call.op = "tester_present"
  /\ call.pre.is_connected
  /\ call.pre.current_session = "SAFETY_SYSTEM"
  /\ Callee.current_session = "SAFETY_SYSTEM"

\* C13: when the session timeout window passes with no tester_present on a
\* connected client in a non-DEFAULT session, the session is DEFAULT
\* afterwards; a tester_present keeps the current session.
C13_SessionTimeoutReverts ==
  /\ (call.op = "session_timeout" /\ call.pre.is_connected
        /\ call.pre.current_session # "DEFAULT")
       => Callee.current_session = "DEFAULT"
  /\ call.op = "tester_present"
       => Callee.current_session = call.pre.current_session

\* a successful read_dtc that found no DTC returns the empty list
ReadFoundNoDTC ==
  << >>

\* C14: read_dtc on a disconnected client returns something else than a
\* successful read that found no DTC, and leaves the client as it was.
C14_ReadDTCDisconnectedFails ==
  (call.op = "read_dtc" /\ ~call.pre.is_connected) =>
    /\ call.ret # ReadFoundNoDTC
    /\ Callee = call.pre

\* C29: each request operation called on a disconnected client reports
\* failure (False, an empty result, or None) and leaves is_connected and
\* current_session as they were.
C29_DisconnectedRequestsFail ==
  (call.op \in OtherRequests \cup {"session_control"}
     /\ ~call.pre.is_connected) =>
    /\ Callee.is_connected = call.pre.is_connected
    /\ Callee.current_session = call.pre.current_session
    /\ CASE call.op \in {"session_control", "clear_dtc", "tester_present"}
              -> call.ret = FALSE
         [] call.op \in {"read_dtc", "read_data_by_identifier"}
              -> call.ret = << >>
         [] call.op = "get_vehicle_identification"
              -> ~call.ret.ok

(***************************************************************************)
(* SpecCANFD: calls on a CANFDHandler.  call keeps the last call, its      *)
(* arguments, the value returned, the frames it built, the handler before  *)
(* the call and the operation called before it.                            *)
(***************************************************************************)
InitCANFD ==
  /\ max_buffer_size = DefaultBufferSize
  /\ CollectorInit
  /\ UDSInit
  /\ FleetInit
  /\ canfd_handler = CANFDHandlerInit
  /\ max_concurrent_diagnostics = DefaultMaxConcurrent

HandlerCalled(op, arg, ret, frames) ==
  [op |-> op, arg |-> arg, ret |-> ret, frames |-> frames,
   pre |-> canfd_handler, prev |-> call.op]

NoArg ==
  [can_id |-> 0, data |-> << >>, is_extended |-> FALSE]

DoHandlerConnect ==
  /\ canfd_handler' = HandlerConnect(canfd_handler)
  /\ call' = HandlerCalled("connect", NoArg, TRUE, << >>)
  /\ UNCHANGED <<collectorVars, uds_client, vehicles, lock,
                 max_concurrent_diagnostics, thread, nops, sent>>

DoHandlerDisconnect ==
  /\ canfd_handler' = HandlerDisconnect(canfd_handler)
  /\ call' = HandlerCalled("disconnect", NoArg,
                           HandlerDisconnectRet(canfd_handler), << >>)
  /\ UNCHANGED <<collectorVars, uds_client, vehicles, lock,
                 max_concurrent_diagnostics, thread, nops, sent>>

\* sent counts the calls made while connected with at most 64 bytes
DoSendFrame ==
  \E can_id \in CanIds, data \in Payloads, is_extended \in BOOLEAN :
    LET counted == canfd_handler.is_connected /\ Len(data) <= 64
    IN /\ counted => sent < MaxFrames
       /\ canfd_handler' = SendFrame(canfd_handler, data)
       /\ sent' = IF counted THEN sent + 1 ELSE sent
       /\ call' = HandlerCalled("send_frame",
                                [can_id |-> can_id, data |-> data,
                                 is_extended |-> is_extended],
                                SendFrameRet(canfd_handler, data),
                                SendFrameFrames(canfd_handler, can_id, data,
                                                is_extended, clock))
       /\ UNCHANGED <<collectorVars, uds_client, vehicles, lock,
                      max_concurrent_diagnostics, thread, nops>>

DoReceiveFrames ==
  /\ canfd_handler' = ReceiveFrames(canfd_handler)
  /\ call' = HandlerCalled("receive_frames", NoArg,
                           ReceiveFramesRet(canfd_handler), << >>)
  /\ UNCHANGED <<collectorVars, uds_client, vehicles, lock,
                 max_concurrent_diagnostics, thread, nops, sent>>

DoGetStatistics ==
  /\ call' = HandlerCalled("get_statistics", NoArg,
                           GetStatistics(canfd_handler), << >>)
  /\ UNCHANGED <<collectorVars, uds_client, fleetVars>>

DoResetStatistics ==
  /\ canfd_handler' = ResetStatistics(canfd_handler)
  /\ sent' = 0
  /\ call' = HandlerCalled("reset_statistics", NoArg, TRUE, << >>)
  /\ UNCHANGED <<collectorVars, uds_client, vehicles, lock,
                 max_concurrent_diagnostics, thread, nops>>

NextCANFD ==
  \/ DoHandlerConnect
  \/ DoHandlerDisconnect
  \/ DoSendFrame
  \/ DoReceiveFrames
  \/ DoGetStatistics
  \/ DoResetStatistics

SpecCANFD == InitCANFD /\ [][NextCANFD]_vars

\* C21: send_frame on a disconnected handler, or with more than 64 bytes,
\* returns False and leaves is_connected, frames_sent, frames_received and
\* bytes_received as they were.
C21_SendFrameRejects ==
  (call.op = "send_frame"
     /\ (~call.pre.is_connected \/ Len(call.arg.data) > 64)) =>
    /\ call.ret = FALSE
    /\ canfd_handler.is_connected = call.pre.is_connected
    /\ \A k \in {"frames_sent", "frames_received", "bytes_received"} :
         canfd_handler.statistics[k] = call.pre.statistics[k]

\* C21: 65 bytes were handed to a connected handler that had sent a frame.
C21_Witness ==
  /\ call.op = "send_frame"
  /\ call.pre.is_connected
  /\ Len(call.arg.data) = 65
  /\ call.pre.statistics.frames_sent >= 1

\* C22: a connect() right after a connect() leaves the handler connected
\* and as the first left it; a disconnect() right after a disconnect()
\* leaves it disconnected and as the first left it; a disconnect() right
\* after a connect() takes the flag from true to false, the statistics
\* untouched.
C22_ConnectDisconnectIdempotent ==
  /\ call.op = "connect" => canfd_handler.is_connected
  /\ call.op = "disconnect" => ~canfd_handler.is_connected
  /\ (call.op = "connect" /\ call.prev = "connect") =>
       canfd_handler = call.pre
  /\ (call.op = "disconnect" /\ call.prev = "disconnect") =>
       canfd_handler = call.pre
  /\ (call.op = "disconnect" /\ call.prev = "connect") =>
       /\ call.pre.is_connected
       /\ canfd_handler.statistics = call.pre.statistics

\* C22: disconnect() was called twice in a row on a handler that has sent
\* a frame.
C22_Witness ==
  /\ call.op = "disconnect"
  /\ call.prev = "disconnect"
  /\ canfd_handler.statistics.frames_sent >= 1

\* C23: a send_frame that returned True built one frame: an FD frame
\* holding the payload, at most 64 bytes long, whose dlc is the payload
\* length.
C23_FrameInvariant ==
  (call.op = "send_frame" /\ call.ret = TRUE) =>
    /\ Len(call.frames) = 1
    /\ call.frames[1].is_fd
    /\ call.frames[1].data = call.arg.data
    /\ Len(call.frames[1].data) <= 64
    /\ call.frames[1].dlc = Len(call.frames[1].data)

\* C23: a frame of 64 bytes was sent.
C23_Witness ==
  /\ call.op = "send_frame"
  /\ call.ret = TRUE
  /\ Len(call.arg.data) = 64
  /\ call.frames # << >>

\* the bytes carried by a sequence of frames, in order
RECURSIVE FramePayloads(_)
FramePayloads(frames) ==
  IF frames = << >> THEN << >>
  ELSE Head(frames).data \o FramePayloads(Tail(frames))

\* C25: a payload longer than 64 bytes handed to a connected handler goes
\* out as a first frame and consecutive frames, each of at most 64 bytes,
\* that reassemble to exactly the original bytes.
C25_SegmentationRoundTrip ==
  (call.op = "send_frame" /\ call.pre.is_connected
     /\ Len(call.arg.data) > 64) =>
    /\ call.ret = TRUE
    /\ Len(call.frames) >= 2
    /\ \A i \in 1..Len(call.frames) : Len(call.frames[i].data) <= 64
    /\ FramePayloads(call.frames) = call.arg.data

\* C26: frames_sent is the number of send_frame calls made while connected
\* with at most 64 bytes since the last reset_statistics, and right after
\* reset_statistics the four counters are 0 and the connection flag is as
\* before.
C26_FramesSentCounts ==
  /\ canfd_handler.statistics.frames_sent = sent
  /\ call.op = "reset_statistics" =>
       /\ \A k \in {"frames_sent", "frames_received", "errors",
                     "bytes_received"} :
            canfd_handler.statistics[k] = 0
       /\ canfd_handler.is_connected = call.pre.is_connected

\* C26: the counters were reset on a connected handler that had sent two
\* frames and had other calls made on it.
C26_Witness ==
  /\ call.op = "reset_statistics"
  /\ call.pre.is_connected
  /\ call.pre.statistics.frames_sent = 2
  /\ call.prev = "receive_frames"

(***************************************************************************)
(* Spec: threads running FleetManager operations.  A step is one statement *)
(* that reads or writes shared state; a thread may be preempted between    *)
(* any two of them.  connect_fleet and disconnect_fleet are calls of the   *)
(* environment.                                                            *)
(***************************************************************************)
Init ==
  /\ max_buffer_size \in 0..MaxCap
  /\ CollectorInit
  /\ uds_client = [c \in Clients |-> Connect(UDSClientInit)]
  /\ call = NoCall
  /\ FleetInit
  /\ canfd_handler = HandlerConnect(CANFDHandlerInit)
  /\ max_concurrent_diagnostics = DefaultMaxConcurrent

\* thread t's record becomes rec
Step(t, rec) ==
  thread' = [thread EXCEPT ![t] = rec]

\* an operation returns ret to its caller
Done(op, v, ret) ==
  [Idle EXCEPT !.pc = "done", !.op = op, !.vehicle_id = v, !.ret = ret]

\* threading.Lock: acquire succeeds when no thread holds the lock
LockIgnored ==
  TRUE
LockFree ==
  lock = 0

\* a thread may start an operation
CanStart(t) ==
  /\ thread[t].pc = "idle"
  /\ nops < MaxOps

\* add_vehicle, line 73: with self.lock
AvLock(t) ==
  \E v \in VehicleIds :
    /\ CanStart(t)
    /\ Contains(vehicles, v) \/ Len(vehicles) < MaxSlots
    /\ LockFree
    /\ lock' = t
    /\ nops' = nops + 1
    /\ Step(t, [Idle EXCEPT !.pc = "av_put", !.op = "add_vehicle",
                            !.vehicle_id = v])
    /\ UNCHANGED <<collectorVars, udsVars, handlerVars, vehicles,
                   max_concurrent_diagnostics>>

\* add_vehicle, lines 74-81: self.vehicles[vehicle_id] = vehicle
AvPut(t) ==
  /\ thread[t].pc = "av_put"
  /\ vehicles' = DictPut(vehicles, thread[t].vehicle_id,
                         FleetVehicle(thread[t].vehicle_id))
  /\ Step(t, [thread[t] EXCEPT !.pc = "av_coll"])
  /\ UNCHANGED <<collectorVars, udsVars, handlerVars, lock,
                 max_concurrent_diagnostics, nops>>

\* add_vehicle, lines 82-90: self.diagnostics_collector.add_vehicle(...)
AvColl(t) ==
  /\ thread[t].pc = "av_coll"
  /\ CollectorAddVehicle(thread[t].vehicle_id)
  /\ Step(t, [thread[t] EXCEPT !.pc = "av_unlock"])
  /\ UNCHANGED <<udsVars, handlerVars, vehicles, lock, max_concurrent_diagnostics, nops>>

\* add_vehicle, line 92: return True, leaving the with block
AvUnlock(t) ==
  /\ thread[t].pc = "av_unlock"
  /\ lock' = 0
  /\ Step(t, Done("add_vehicle", thread[t].vehicle_id, TRUE))
  /\ UNCHANGED <<collectorVars, udsVars, handlerVars, vehicles,
                 max_concurrent_diagnostics, nops>>

\* remove_vehicle, line 100: with self.lock
RvLock(t) ==
  \E v \in VehicleIds :
    /\ CanStart(t)
    /\ LockFree
    /\ lock' = t
    /\ nops' = nops + 1
    /\ Step(t, [Idle EXCEPT !.pc = "rv_body", !.op = "remove_vehicle",
                            !.vehicle_id = v])
    /\ UNCHANGED <<collectorVars, udsVars, handlerVars, vehicles,
                   max_concurrent_diagnostics>>

\* remove_vehicle, lines 101-102: if vehicle_id in self.vehicles: del ...
RvBody(t) ==
  /\ thread[t].pc = "rv_body"
  /\ IF Contains(vehicles, thread[t].vehicle_id)
     THEN /\ vehicles' = DictDel(vehicles, thread[t].vehicle_id)
          /\ Step(t, [thread[t] EXCEPT !.pc = "rv_unlock",
                                               !.ret = TRUE])
     ELSE /\ UNCHANGED vehicles
          /\ Step(t, [thread[t] EXCEPT !.pc = "rv_unlock", !.ret = FALSE])
  /\ UNCHANGED <<collectorVars, udsVars, handlerVars, lock,
                 max_concurrent_diagnostics, nops>>

\* remove_vehicle, lines 104 and 107: return, leaving the with block
RvUnlock(t) ==
  /\ thread[t].pc = "rv_unlock"
  /\ lock' = 0
  /\ Step(t, Done("remove_vehicle", thread[t].vehicle_id, thread[t].ret))
  /\ UNCHANGED <<collectorVars, udsVars, handlerVars, vehicles,
                 max_concurrent_diagnostics, nops>>

\* update_vehicle_status, line 112: with self.lock
UsLock(t) ==
  \E v \in VehicleIds, online \in BOOLEAN :
    /\ CanStart(t)
    /\ LockFree
    /\ lock' = t
    /\ nops' = nops + 1
    /\ Step(t, [Idle EXCEPT !.pc = "us_body",
                            !.op = "update_vehicle_status",
                            !.vehicle_id = v, !.online = online])
    /\ UNCHANGED <<collectorVars, udsVars, handlerVars, vehicles,
                   max_concurrent_diagnostics>>

\* update_vehicle_status, lines 113-115: set online (and last_seen)
UsBody(t) ==
  /\ thread[t].pc = "us_body"
  /\ IF Contains(vehicles, thread[t].vehicle_id)
     THEN /\ vehicles' =
               [vehicles EXCEPT ![SlotOf(vehicles, thread[t].vehicle_id)]
                                  .online = thread[t].online]
          /\ Step(t, [thread[t] EXCEPT !.pc = "us_unlock",
                                               !.ret = TRUE])
     ELSE /\ UNCHANGED vehicles
          /\ Step(t, [thread[t] EXCEPT !.pc = "us_unlock", !.ret = FALSE])
  /\ UNCHANGED <<collectorVars, udsVars, handlerVars, lock,
                 max_concurrent_diagnostics, nops>>

\* update_vehicle_status, lines 118 and 121: return, leaving the with block
UsUnlock(t) ==
  /\ thread[t].pc = "us_unlock"
  /\ lock' = 0
  /\ Step(t, Done("update_vehicle_status", thread[t].vehicle_id,
                  thread[t].ret))
  /\ UNCHANGED <<collectorVars, udsVars, handlerVars, vehicles,
                 max_concurrent_diagnostics, nops>>

\* connect_fleet: canfd_handler.connect() and uds_client.connect()
ConnectFleet ==
  /\ canfd_handler' = HandlerConnect(canfd_handler)
  /\ uds_client' = [uds_client EXCEPT ![FleetClient] = Connect(@)]
  /\ UNCHANGED <<collectorVars, call, vehicles, lock,
                 max_concurrent_diagnostics, thread, nops, sent>>

\* disconnect_fleet: canfd_handler.disconnect(); uds_client.disconnect()
DisconnectFleet ==
  /\ canfd_handler' = HandlerDisconnect(canfd_handler)
  /\ uds_client' = [uds_client EXCEPT ![FleetClient] = Disconnect(@)]
  /\ UNCHANGED <<collectorVars, call, vehicles, lock,
                 max_concurrent_diagnostics, thread, nops, sent>>

\* perform_diagnostics returns result: to scan_fleet's loop, which adds it
\* to results (lines 212-216), or to the thread's caller
PerformReturns(th, result) ==
  IF th.op = "scan_fleet"
  THEN [th EXCEPT !.pc = "sf_next",
                  !.results = Accumulate(@, result),
                  !.visited = Append(@, [vehicle_id |-> th.vehicle_id,
                                         result |-> result,
                                         connected |-> th.connected]),
                  !.dtc_codes = << >>, !.connected = FALSE,
                  !.diagnostic = Idle.diagnostic, !.count = 0]
  ELSE [Idle EXCEPT !.pc = "done", !.op = "perform_diagnostics",
                    !.vehicle_id = th.vehicle_id,
                    !.connected = th.connected,
                    !.result = result,
                    !.before = th.before]

\* a thread calls perform_diagnostics(v)
PdStart(t) ==
  \E v \in VehicleIds :
    /\ CanStart(t)
    /\ nops' = nops + 1
    /\ Step(t, [Idle EXCEPT !.pc = "pd_check", !.op = "perform_diagnostics",
                            !.vehicle_id = v, !.before = Len(created)])
    /\ UNCHANGED <<collectorVars, udsVars, handlerVars, vehicles, lock,
                   max_concurrent_diagnostics>>

\* perform_diagnostics, lines 154-156: if vehicle_id not in self.vehicles
PdCheck(t) ==
  /\ thread[t].pc = "pd_check"
  /\ IF Contains(vehicles, thread[t].vehicle_id)
     THEN Step(t, [thread[t] EXCEPT !.pc = "pd_lookup"])
     ELSE Step(t, PerformReturns(thread[t], NoResult))
  /\ UNCHANGED <<collectorVars, udsVars, handlerVars, vehicles, lock,
                 max_concurrent_diagnostics, nops>>

\* perform_diagnostics, line 159: vehicle = self.vehicles[vehicle_id]; a
\* KeyError is caught at line 190 and None returned
PdLookup(t) ==
  /\ thread[t].pc = "pd_lookup"
  /\ IF Contains(vehicles, thread[t].vehicle_id)
     THEN Step(t, [thread[t] EXCEPT !.pc = "pd_read"])
     ELSE Step(t, PerformReturns(thread[t], NoResult))
  /\ UNCHANGED <<collectorVars, udsVars, handlerVars, vehicles, lock,
                 max_concurrent_diagnostics, nops>>

\* perform_diagnostics, line 163: the codes of self.uds_client.read_dtc()
PdRead(t) ==
  /\ thread[t].pc = "pd_read"
  /\ LET u == uds_client[ClientOf(thread[t].vehicle_id)]
     IN Step(t, [thread[t] EXCEPT !.pc = "cd_check",
                                  !.dtc_codes = Codes(ReadDTC(u)),
                                  !.connected = u.is_connected])
  /\ UNCHANGED <<collectorVars, udsVars, handlerVars, vehicles, lock,
                 max_concurrent_diagnostics, nops>>

\* collect_diagnostics returns (a record or None): perform_diagnostics
\* ignores the value and returns its result dict, lines 184-189
CollectReturns(th) ==
  PerformReturns(th, Result(th.vehicle_id, th.dtc_codes))

\* collect_diagnostics, lines 88-100: the registration test, then the
\* record is created with the current time
CdCheck(t) ==
  /\ thread[t].pc = "cd_check"
  /\ IF Registered(vehicle_profiles, thread[t].vehicle_id)
     THEN /\ clock' = clock + 1
          /\ Step(t, [thread[t] EXCEPT
                        !.pc = "cd_full",
                        !.diagnostic =
                           VehicleDiagnostics(thread[t].vehicle_id, clock,
                                              thread[t].dtc_codes)])
     ELSE /\ UNCHANGED clock
          /\ Step(t, CollectReturns(thread[t]))
  /\ UNCHANGED <<max_buffer_size, diagnostics_buffer, vehicle_profiles,
                 created, udsVars, handlerVars, vehicles, lock,
                 max_concurrent_diagnostics, nops>>

\* collect_diagnostics, line 103: the capacity test
CdFull(t) ==
  /\ thread[t].pc = "cd_full"
  /\ IF BufferFull(diagnostics_buffer, max_buffer_size)
     THEN Step(t, [thread[t] EXCEPT !.pc = "cd_pop"])
     ELSE Step(t, [thread[t] EXCEPT !.pc = "cd_append"])
  /\ UNCHANGED <<collectorVars, udsVars, handlerVars, vehicles, lock,
                 max_concurrent_diagnostics, nops>>

\* collect_diagnostics, line 104: pop(0); the IndexError of an empty list
\* is caught at line 114 and None returned
CdPop(t) ==
  /\ thread[t].pc = "cd_pop"
  /\ IF diagnostics_buffer = << >>
     THEN /\ UNCHANGED diagnostics_buffer
          /\ Step(t, CollectReturns(thread[t]))
     ELSE /\ diagnostics_buffer' = PopOldest(diagnostics_buffer)
          /\ Step(t, [thread[t] EXCEPT !.pc = "cd_append"])
  /\ UNCHANGED <<max_buffer_size, vehicle_profiles, clock, created,
                 udsVars, handlerVars, vehicles, lock, max_concurrent_diagnostics, nops>>

\* collect_diagnostics, line 106: append
CdAppend(t) ==
  /\ thread[t].pc = "cd_append"
  /\ diagnostics_buffer' =
       BufferAppend(diagnostics_buffer, thread[t].diagnostic)
  /\ created' = Append(created, thread[t].diagnostic)
  /\ Step(t, [thread[t] EXCEPT !.pc = "cd_last"])
  /\ UNCHANGED <<max_buffer_size, vehicle_profiles, clock,
                 udsVars, handlerVars, vehicles, lock, max_concurrent_diagnostics, nops>>

\* collect_diagnostics, line 109: last_diagnostic = diagnostic.timestamp
CdLast(t) ==
  /\ thread[t].pc = "cd_last"
  /\ vehicle_profiles' =
       [vehicle_profiles EXCEPT ![thread[t].vehicle_id].last_diagnostic =
                                  thread[t].diagnostic.timestamp]
  /\ Step(t, [thread[t] EXCEPT !.pc = "cd_read"])
  /\ UNCHANGED <<max_buffer_size, diagnostics_buffer, clock, created,
                 udsVars, handlerVars, vehicles, lock, max_concurrent_diagnostics, nops>>

\* collect_diagnostics, line 110: diagnostics_count += 1 reads the count
CdRead(t) ==
  /\ thread[t].pc = "cd_read"
  /\ Step(t, [thread[t] EXCEPT
                !.pc = "cd_write",
                !.count =
                   vehicle_profiles[thread[t].vehicle_id].diagnostics_count])
  /\ UNCHANGED <<collectorVars, udsVars, handlerVars, vehicles, lock,
                 max_concurrent_diagnostics, nops>>

\* collect_diagnostics, line 110: ... and stores the count plus one
CdWrite(t) ==
  /\ thread[t].pc = "cd_write"
  /\ vehicle_profiles' =
       [vehicle_profiles EXCEPT ![thread[t].vehicle_id].diagnostics_count =
                                  thread[t].count + 1]
  /\ Step(t, CollectReturns(thread[t]))
  /\ UNCHANGED <<max_buffer_size, diagnostics_buffer, clock, created,
                 udsVars, handlerVars, vehicles, lock, max_concurrent_diagnostics, nops>>

\* scan_fleet, lines 202-208: results, with total_vehicles = len(vehicles)
SfInit(t) ==
  /\ CanStart(t)
  /\ nops' = nops + 1
  /\ Step(t, [Idle EXCEPT !.pc = "sf_iter", !.op = "scan_fleet",
                          !.results = NewResults(DictLen(vehicles))])
  /\ UNCHANGED <<collectorVars, udsVars, handlerVars, vehicles, lock,
                 max_concurrent_diagnostics>>

\* scan_fleet, line 210: for vehicle_id in self.vehicles makes the iterator
SfIter(t) ==
  /\ thread[t].pc = "sf_iter"
  /\ Step(t, [thread[t] EXCEPT !.pc = "sf_next", !.it = DictIter(vehicles)])
  /\ UNCHANGED <<collectorVars, udsVars, handlerVars, vehicles, lock,
                 max_concurrent_diagnostics, nops>>

\* scan_fleet, line 210: the loop asks the iterator for the next key; its
\* RuntimeError is caught nowhere and leaves scan_fleet, StopIteration ends
\* the loop and scan_fleet returns results (line 219), a key is handed to
\* perform_diagnostics (line 211)
SfNext(t) ==
  /\ thread[t].pc = "sf_next"
  /\ LET th == thread[t]
         outcome == IterOutcome(vehicles, th.it)
         i == NextSlot(vehicles, th.it.pos)
     IN CASE outcome = "raise" ->
               Step(t, [Idle EXCEPT !.pc = "crashed", !.op = "scan_fleet"])
          [] outcome = "stop" ->
               Step(t, [Idle EXCEPT !.pc = "done", !.op = "scan_fleet",
                                    !.results = th.results,
                                    !.visited = th.visited])
          [] outcome = "yield" ->
               Step(t, [th EXCEPT !.pc = "pd_check",
                                  !.vehicle_id = vehicles[i].vehicle_id,
                                  !.it = [used |-> th.it.used, pos |-> i,
                                          len |-> th.it.len - 1]])
  /\ UNCHANGED <<collectorVars, udsVars, handlerVars, vehicles, lock,
                 max_concurrent_diagnostics, nops>>

\* the caller takes the returned value; the thread is free again
Return(t) ==
  /\ thread[t].pc = "done"
  /\ Step(t, Idle)
  /\ UNCHANGED <<collectorVars, udsVars, handlerVars, vehicles, lock,
                 max_concurrent_diagnostics, nops>>

\* FleetManager.get_fleet_status: the dict returned
GetFleetStatus ==
  LET online_vehicles ==
        Cardinality({i \in LiveSlots(vehicles) : vehicles[i].online})
  IN [total_vehicles |-> DictLen(vehicles),
      online_vehicles |-> online_vehicles,
      offline_vehicles |-> DictLen(vehicles) - online_vehicles,
      diagnostics_summary |-> GetFleetSummary]

\* a thread calls get_fleet_status(); with no other thread running the
\* call is one step
GfsCall(t) ==
  /\ CanStart(t)
  /\ nops' = nops + 1
  /\ Step(t, Done("get_fleet_status", "", GetFleetStatus))
  /\ UNCHANGED <<collectorVars, udsVars, handlerVars, vehicles, lock,
                 max_concurrent_diagnostics>>

\* a thread calls diagnostics_collector.get_vehicle_diagnostics(v, limit)
GvdCall(t) ==
  \E v \in VehicleIds, limit \in 0..MaxLimit :
    /\ CanStart(t)
    /\ nops' = nops + 1
    /\ Step(t, Done("get_vehicle_diagnostics", v,
                    GetVehicleDiagnostics(v, limit)))
    /\ UNCHANGED <<collectorVars, udsVars, handlerVars, vehicles, lock,
                   max_concurrent_diagnostics>>

Query(t) ==
  \/ GfsCall(t) \/ GvdCall(t)

Mutate(t) ==
  \/ AvLock(t) \/ AvPut(t) \/ AvColl(t) \/ AvUnlock(t)
  \/ RvLock(t) \/ RvBody(t) \/ RvUnlock(t)
  \/ UsLock(t) \/ UsBody(t) \/ UsUnlock(t)

Diagnose(t) ==
  \/ PdStart(t) \/ PdCheck(t) \/ PdLookup(t) \/ PdRead(t)
  \/ CdCheck(t) \/ CdFull(t) \/ CdPop(t) \/ CdAppend(t)
  \/ CdLast(t) \/ CdRead(t) \/ CdWrite(t)

Scan(t) ==
  \/ SfInit(t) \/ SfIter(t) \/ SfNext(t)

Next ==
  \E t \in Threads :
    Mutate(t) \/ Diagnose(t) \/ Scan(t) \/ Return(t)

Spec == Init /\ [][Next]_vars

(***************************************************************************)
(* SpecScan: one thread uses the FleetManager, so nothing changes the      *)
(* registry while scan_fleet runs.                                         *)
(***************************************************************************)
InitScan ==
  /\ max_buffer_size \in 0..MaxCap
  /\ CollectorInit
  /\ UDSInit
  /\ FleetInit
  /\ canfd_handler = CANFDHandlerInit
  /\ max_concurrent_diagnostics \in 0..MaxPool

NextScan ==
  \/ ConnectFleet
  \/ DisconnectFleet
  \/ Mutate(1) \/ Diagnose(1) \/ Scan(1) \/ Query(1) \/ Return(1)

SpecScan == InitScan /\ [][NextScan]_vars

\* a call that has started runs on: every statement of perform_diagnostics
\* and scan_fleet returns
SpecScanFair ==
  SpecScan /\ WF_vars(Diagnose(1) \/ SfIter(1) \/ SfNext(1))

(***************************************************************************)
(* SpecRegistry: the threads only change the registry.                     *)
(***************************************************************************)
NextRegistry ==
  \E t \in Threads :
    Mutate(t) \/ Return(t)

SpecRegistry == Init /\ [][NextRegistry]_vars

\* no thread is in the middle of an operation
Quiet ==
  \A t \in Threads : thread[t].pc \in {"idle", "done", "crashed"}

(***************************************************************************)
(* SpecWorkers: registry operations and perform_diagnostics calls do not   *)
(* overlap.  A registry operation starts while no other thread is inside   *)
(* an operation, and holds the lock until it returns; a                    *)
(* perform_diagnostics call starts while the lock is free, and runs        *)
(* concurrently with the other threads' perform_diagnostics calls.         *)
(***************************************************************************)
OthersQuiet(t) ==
  \A u \in Threads \ {t} : thread[u].pc \in {"idle", "done"}

NextWorkers ==
  \E t \in Threads :
    \/ OthersQuiet(t) /\ AvLock(t)
    \/ AvPut(t) \/ AvColl(t) \/ AvUnlock(t)
    \/ OthersQuiet(t) /\ RvLock(t)
    \/ RvBody(t) \/ RvUnlock(t)
    \/ OthersQuiet(t) /\ UsLock(t)
    \/ UsBody(t) \/ UsUnlock(t)
    \/ lock = 0 /\ PdStart(t)
    \/ PdCheck(t) \/ PdLookup(t) \/ PdRead(t)
    \/ CdCheck(t) \/ CdFull(t) \/ CdPop(t) \/ CdAppend(t)
    \/ CdLast(t) \/ CdRead(t) \/ CdWrite(t)
    \/ Return(t)

SpecWorkers == Init /\ [][NextWorkers]_vars

(***************************************************************************)
(* Claims on the threads                                                    *)
(***************************************************************************)

\* the records appended for v since it was (last) registered
RecordsOf(v) ==
  {i \in 1..Len(created) :
     /\ created[i].vehicle_id = v
     /\ created[i].timestamp >= vehicle_profiles[v].added_at}

\* C2: with workers running perform_diagnostics concurrently, the buffer
\* never holds more than max_buffer_size records and no diagnostics_count
\* increment is lost: once all workers have finished, every vehicle's
\* diagnostics_count is the number of records appended for it.
C2_RecordAndCountAtomic ==
  /\ Len(diagnostics_buffer) <= max_buffer_size
  /\ Quiet =>
       \A v \in DOMAIN vehicle_profiles :
         vehicle_profiles[v].diagnostics_count = Cardinality(RecordsOf(v))

\* the places of a thread inside perform_diagnostics
PerformPCs ==
  {"pd_check", "pd_lookup", "pd_read", "cd_check", "cd_full", "cd_pop",
   "cd_append", "cd_last", "cd_read", "cd_write"}

\* the diagnostic sessions thread t's scan_fleet has in flight
InFlight(t) ==
  IF thread[t].op = "scan_fleet" /\ thread[t].pc \in PerformPCs
  THEN 1 ELSE 0

\* C3: during scan_fleet the number of diagnostic sessions in flight never
\* exceeds max_concurrent_diagnostics, whatever value was configured.
C3_SessionsBounded ==
  \A t \in Threads : InFlight(t) <= max_concurrent_diagnostics

\* thread t's scan_fleet has returned
ScanDone(t) ==
  thread[t].pc = "done" /\ thread[t].op = "scan_fleet"

\* the perform_diagnostics calls of a scan that meet cond
Visits(t, cond(_)) ==
  {i \in 1..Len(thread[t].visited) : cond(thread[t].visited[i])}

\* a diagnostic that succeeded: a result was returned and read_dtc ran on a
\* connected client
Succeeded(visit) ==
  visit.result.ok /\ visit.connected

\* C4: a vehicle whose diagnostic fails, also because read_dtc ran on a
\* disconnected UDS client, is not counted in vehicles_scanned.
C4_FailedNotScanned ==
  \A t \in Threads :
    ScanDone(t) =>
      thread[t].results.vehicles_scanned =
        Cardinality(Visits(t, Succeeded))

Returned(visit) ==
  visit.result.ok

WithIssues(visit) ==
  visit.result.ok /\ visit.result.dtc_count > 0

RECURSIVE SumDTCs(_)
SumDTCs(visited) ==
  IF visited = << >> THEN 0
  ELSE (IF visited[1].result.ok THEN visited[1].result.dtc_count ELSE 0)
       + SumDTCs(Tail(visited))

\* the results of a finished scan are the aggregate of the visits made, one
\* per registered vehicle in registration order
ScanResultRight(t) ==
  LET th == thread[t]
      r == th.results
  IN /\ [i \in 1..Len(th.visited) |-> th.visited[i].vehicle_id]
          = KeyList(vehicles)
     /\ r.total_vehicles = DictLen(vehicles)
     /\ r.vehicles_scanned = Cardinality(Visits(t, Returned))
     /\ r.vehicles_with_issues = Cardinality(Visits(t, WithIssues))
     /\ r.total_dtcs = SumDTCs(th.visited)
     /\ r.vehicles_with_issues <= r.vehicles_scanned
     /\ r.vehicles_scanned <= r.total_vehicles

\* C5: with no concurrent registry mutation, scan_fleet terminates after
\* running perform_diagnostics exactly once for every registered vehicle in
\* registration order, and its result is total_vehicles = registry size,
\* vehicles_scanned = the diagnostics that returned a result,
\* vehicles_with_issues = those with dtc_count > 0, total_dtcs = the sum of
\* their dtc_count, with vehicles_with_issues <= vehicles_scanned <=
\* total_vehicles.
C5_ScanAggregates ==
  /\ [](ScanDone(1) => ScanResultRight(1))
  /\ (thread[1].op = "scan_fleet") ~> ScanDone(1)

\* C5: a scan of two vehicles has returned, one vehicle read while the
\* fleet was connected and one while it was not.
C5_Witness ==
  /\ ScanDone(1)
  /\ Len(thread[1].visited) = 2
  /\ thread[1].results.vehicles_scanned = 2
  /\ thread[1].results.vehicles_with_issues = 1
  /\ thread[1].results.total_dtcs = 2

\* C6: a scan_fleet that runs while other threads add or remove vehicles
\* does not crash.
C6_ScanSurvivesMutation ==
  \A t \in Threads : thread[t].pc # "crashed"

\* inside the with self.lock block of a registry operation
InCritical(t) ==
  thread[t].pc \in {"av_put", "av_coll", "av_unlock", "rv_body",
                    "rv_unlock", "us_body", "us_unlock"}

\* C7: no two of add_vehicle, remove_vehicle and update_vehicle_status are
\* inside their registry-mutating section at the same time, and the lock
\* is released on every exit path: it is held exactly while its holder is
\* inside such a section.
C7_RegistryMutualExclusion ==
  /\ \A t1, t2 \in Threads :
       (InCritical(t1) /\ InCritical(t2)) => t1 = t2
  /\ \A t \in Threads : InCritical(t) <=> lock = t
  /\ lock # 0 => lock \in Threads

\* C7: thread 2's remove_vehicle has returned False (the vehicle was not
\* registered) and thread 1 has since entered its own section.
C7_Witness ==
  /\ thread[2].pc = "done"
  /\ thread[2].op = "remove_vehicle"
  /\ thread[2].ret = FALSE
  /\ InCritical(1)
  /\ thread[1].op = "update_vehicle_status"

\* C20: a perform_diagnostics that read the DTCs of a registered vehicle
\* from the connected client (buffer capacity >= 1) has appended exactly
\* one record, the newest in the buffer, owned by that vehicle and holding
\* the codes "P0101", "P0102" in that order, and has returned dtc_count 2;
\* when no record was created before the call,
\* get_vehicle_diagnostics(vehicle, 5) is then exactly that one record.
C20_PerformRecordsDTCs ==
  \A t \in Threads :
    (/\ thread[t].pc = "done"
     /\ thread[t].op = "perform_diagnostics"
     /\ thread[t].result.ok
     /\ thread[t].connected
     /\ max_buffer_size >= 1) =>
      /\ Len(created) = thread[t].before + 1
      /\ LET diagnostic == created[Len(created)]
         IN /\ diagnostic.vehicle_id = thread[t].vehicle_id
            /\ diagnostic.dtc_codes = <<"P0101", "P0102">>
            /\ diagnostics_buffer[Len(diagnostics_buffer)] = diagnostic
            /\ thread[t].result.vehicle_id = thread[t].vehicle_id
            /\ thread[t].result.dtc_count = 2
            /\ thread[t].before = 0 =>
                 GetVehicleDiagnostics(thread[t].vehicle_id, 5)
                   = <<diagnostic>>

\* C20: the first perform_diagnostics of a behaviour has returned for a
\* registered vehicle on a connected fleet, and the vehicle's history
\* holds one record.
C20_Witness ==
  /\ thread[1].pc = "done"
  /\ thread[1].op = "perform_diagnostics"
  /\ thread[1].result.ok
  /\ thread[1].connected
  /\ thread[1].before = 0
  /\ max_buffer_size >= 1
  /\ Len(GetVehicleDiagnostics(thread[1].vehicle_id, 5)) = 1

\* C24: every step leaves the records in the buffer as they are: the
\* buffer is unchanged, or one record is appended behind them, or the
\* oldest record of a full buffer is evicted.
C24_RecordsImmutable ==
  [][\/ diagnostics_buffer' = diagnostics_buffer
     \/ /\ Len(diagnostics_buffer') = Len(diagnostics_buffer) + 1
        /\ SubSeq(diagnostics_buffer', 1, Len(diagnostics_buffer))
             = diagnostics_buffer
     \/ /\ diagnostics_buffer # << >>
        /\ Len(diagnostics_buffer) >= max_buffer_size
        /\ diagnostics_buffer' = Tail(diagnostics_buffer)
    ]_vars

\* C24: a vehicle was removed from the fleet while the buffer holds a
\* record of it.
C24_Witness ==
  /\ thread[1].pc = "done"
  /\ thread[1].op = "remove_vehicle"
  /\ thread[1].ret = TRUE
  /\ RecordsFor(diagnostics_buffer, thread[1].vehicle_id) # << >>

\* the registry's keys, and the entry of a key
Keys(d) ==
  {d[i].vehicle_id : i \in LiveSlots(d)}
Entry(d, k) ==
  d[SlotOf(d, k)]

\* C27: the body of remove_vehicle on a registered id deletes that entry,
\* keeps every other entry and yields True; the body of
\* update_vehicle_status on a registered id sets that vehicle's online flag
\* to the argument, keeps every other entry and yields True; on an
\* unregistered id both leave the registry as it is and yield False; and
\* the value yielded is the value returned.
C27_RemoveAndUpdate ==
  [][\A t \in Threads :
       LET v == thread[t].vehicle_id
           others == Keys(vehicles) \ {v}
       IN /\ (thread[t].pc = "rv_body" /\ thread'[t].pc = "rv_unlock") =>
               IF v \in Keys(vehicles)
               THEN /\ thread'[t].ret = TRUE
                    /\ Keys(vehicles') = others
                    /\ \A w \in others :
                         Entry(vehicles', w) = Entry(vehicles, w)
               ELSE /\ thread'[t].ret = FALSE
                    /\ vehicles' = vehicles
          /\ (thread[t].pc = "us_body" /\ thread'[t].pc = "us_unlock") =>
               IF v \in Keys(vehicles)
               THEN /\ thread'[t].ret = TRUE
                    /\ Keys(vehicles') = Keys(vehicles)
                    /\ Entry(vehicles', v).online = thread[t].online
                    /\ \A w \in others :
                         Entry(vehicles', w) = Entry(vehicles, w)
               ELSE /\ thread'[t].ret = FALSE
                    /\ vehicles' = vehicles
          /\ (thread[t].pc \in {"rv_unlock", "us_unlock"}
                /\ thread'[t].pc = "done") =>
               /\ thread'[t].ret = thread[t].ret
               /\ thread'[t].op = thread[t].op
               /\ vehicles' = vehicles
    ]_vars

\* C27: remove_vehicle returned True for one of two registered vehicles,
\* and the other is still registered.
C27_Witness ==
  \E t \in Threads :
    /\ thread[t].pc = "done"
    /\ thread[t].op = "remove_vehicle"
    /\ thread[t].ret = TRUE
    /\ thread[t].vehicle_id \notin Keys(vehicles)
    /\ Keys(vehicles) # {}

\* v is registered and its online flag is set
IsOnline(d, v) ==
  v \in Keys(d) /\ Entry(d, v).online

\* C28: get_fleet_status returns total_vehicles = the registry's size,
\* online_vehicles = the number of registered vehicles whose flag is set
\* and offline_vehicles = the rest; and a vehicle's flag is set by nothing
\* but update_vehicle_status on it (to the argument), add_vehicle leaving
\* it clear.
C28_FleetStatus ==
  /\ [](\A t \in Threads :
          (thread[t].pc = "done" /\ thread[t].op = "get_fleet_status") =>
            /\ thread[t].ret.total_vehicles = Cardinality(Keys(vehicles))
            /\ thread[t].ret.online_vehicles =
                 Cardinality({v \in VehicleIds : IsOnline(vehicles, v)})
            /\ thread[t].ret.online_vehicles
                 + thread[t].ret.offline_vehicles
                   = thread[t].ret.total_vehicles)
  /\ [][\A v \in VehicleIds :
          IF \E t \in Threads :
               /\ thread[t].pc = "us_body" /\ thread'[t].pc = "us_unlock"
               /\ thread[t].vehicle_id = v /\ v \in Keys(vehicles)
          THEN \A t \in Threads :
                 (thread[t].pc = "us_body" /\ thread'[t].pc = "us_unlock")
                   => IsOnline(vehicles', v) = thread[t].online
          ELSE IF \E t \in Threads :
                    /\ thread[t].pc = "av_put" /\ thread'[t].pc = "av_coll"
                    /\ thread[t].vehicle_id = v
               THEN ~IsOnline(vehicles', v)
               ELSE IsOnline(vehicles', v) => IsOnline(vehicles, v)
       ]_vars

\* C28: get_fleet_status returned after a vehicle was added and set online.
C28_Witness ==
  /\ thread[1].pc = "done"
  /\ thread[1].op = "get_fleet_status"
  /\ thread[1].ret.total_vehicles = 1
  /\ thread[1].ret.online_vehicles = 1

\* C30: while no operation is running, the ids in the registry are the ids
\* registered in the collector.
C30_RegistryMatchesCollector ==
  Quiet => Keys(vehicles) = DOMAIN vehicle_profiles

=============================================================================
